---- MODULE Spec2Model ----
(***************************************************************************)
(* GYMSPHERE streak service (src/services/streak_service.py).              *)
(*                                                                         *)
(* The store holds User rows (the two cached streak fields), UserPlan rows *)
(* and DailyPlanEntry rows.  calculate_streaks reads the latest plan of a  *)
(* user and its entries dated <= today, newest first, scans them and       *)
(* writes the two counts back when they changed.                           *)
(*                                                                         *)
(*   Spec      the store from empty: plans and entries come and go, the    *)
(*             day advances, calculate_streaks and compute_streaks run to  *)
(*             completion one at a time                                    *)
(*   SpecScan  calculate_streaks on every entry list of one plan           *)
(*   SpecRace  two concurrent invocations for one user, step by step       *)
(*   SpecEst   estimate_transformation_days in binary64 arithmetic         *)
(***************************************************************************)
EXTENDS Integers, Sequences, FiniteSets, TLC

\* ------------------------------------------------------------------ bounds
MaxDay == 3       \* calendar dates are 1..MaxDay
MaxPlans == 2     \* UserPlan rows created in one behaviour
MaxEntries == 2   \* DailyPlanEntry rows inserted in one behaviour

Days == 1..MaxDay
UserIds == {1}              \* the User rows calculate_streaks is called for
Owners == {1, 2}            \* UserPlan.user_id: user 1 or another user
UnknownUser == 3            \* an id User.query.get finds no row for
NoPlan == 0                 \* .first() on an empty query (None)
PlanArgs == 1..(MaxPlans + 1)   \* plan_id arguments, existing or not

VARIABLES
    users,      \* user id -> [workout_streak, diet_streak]
    plans,      \* sequence of owners: plan id = index = creation order
    entries,    \* set of DailyPlanEntry rows
    today,      \* datetime.utcnow().date()
    call,       \* the last completed call, cleared by every other change
    pc,         \* SpecRace: where each concurrent invocation stands
    loc,        \* SpecRace: each invocation's user object and computed counts
    written,    \* SpecRace: the counts computed by the invocation that committed last
    est         \* SpecEst: the arguments of estimate_transformation_days and its result

vars == <<users, plans, entries, today, call, pc, loc, written, est>>
raceVars == <<pc, loc, written, est>>
storeVars == <<users, plans, entries, today, call, pc, loc, written>>

ZeroRow == [workout_streak |-> 0, diet_streak |-> 0]
Zero == [workout |-> 0, diet |-> 0]
NoCall == [op |-> "none"]

Flags == [is_exercise_day : BOOLEAN, is_exercise_completed : BOOLEAN,
          is_diet_completed : BOOLEAN]

Entry(p, d, f) ==
    [plan |-> p, date |-> d, is_exercise_day |-> f.is_exercise_day,
     is_exercise_completed |-> f.is_exercise_completed,
     is_diet_completed |-> f.is_diet_completed]

\* ------------------------------------------------------------------ queries

\* faulty variant: order_by(created_at.asc())
LatestPlanOldest(uid, ps) ==
    LET mine == {i \in DOMAIN ps : ps[i] = uid}
    IN  IF mine = {} THEN NoPlan
        ELSE CHOOSE i \in mine : \A j \in mine : i <= j

\* UserPlan.query.filter_by(user_id=..).order_by(created_at.desc()).first()
LatestPlan(uid, ps) ==
    LET mine == {i \in DOMAIN ps : ps[i] = uid}
    IN  IF mine = {} THEN NoPlan
        ELSE CHOOSE i \in mine : \A j \in mine : j <= i

RECURSIVE OrderByDateDesc(_)
OrderByDateDesc(S) ==
    IF S = {} THEN <<>>
    ELSE LET e == CHOOSE x \in S : \A y \in S : y.date <= x.date
         IN  <<e>> \o OrderByDateDesc(S \ {e})

\* DailyPlanEntry.query.filter_by(plan_id=..).filter(date <= today)
\*     .order_by(date.desc()).all()
FetchEntries(pid, es, t) ==
    OrderByDateDesc({e \in es : e.plan = pid /\ e.date <= t})

\* ------------------------------------------------------------------ scans

IsSuccessW(e) ==
    (e.is_exercise_day /\ e.is_exercise_completed) \/ ~e.is_exercise_day

\* faulty variant: the date-continuity check the comment at line 105 speaks of
RECURSIVE WorkoutLoopGapBreaks(_, _, _)
WorkoutLoopGapBreaks(es, i, w) ==
    IF i > Len(es) THEN w
    ELSE IF i > 1 /\ es[i].date # es[i - 1].date - 1 THEN w
    ELSE IF IsSuccessW(es[i]) THEN WorkoutLoopGapBreaks(es, i + 1, w + 1)
    ELSE w

\* for i in range(i, len(entries)): success -> w += 1, else break
RECURSIVE WorkoutLoop(_, _, _)
WorkoutLoop(es, i, w) ==
    IF i > Len(es) THEN w
    ELSE IF IsSuccessW(es[i]) THEN WorkoutLoop(es, i + 1, w + 1)
    ELSE w

\* faulty variant: today's open exercise day breaks the streak
WorkoutStreakTodayBreaks(es, t) ==
    IF es[1].date = t
    THEN IF IsSuccessW(es[1]) THEN WorkoutLoop(es, 2, 1) ELSE 0
    ELSE WorkoutLoop(es, 1, 0)

\* es is non-empty, newest first (sequence indices are 1-based)
WorkoutStreak(es, t) ==
    IF es[1].date = t
    THEN WorkoutLoop(es, 2, IF IsSuccessW(es[1]) THEN 1 ELSE 0)
    ELSE WorkoutLoop(es, 1, 0)

RECURSIVE DietLoop(_, _, _)
DietLoop(es, i, d) ==
    IF i > Len(es) THEN d
    ELSE IF es[i].is_diet_completed THEN DietLoop(es, i + 1, d + 1)
    ELSE d

\* faulty variant: today's open diet is scanned like any other day
DietStreakTodayBreaks(es, t) ==
    IF es[1].date = t /\ es[1].is_diet_completed
    THEN DietLoop(es, 2, 1)
    ELSE DietLoop(es, 1, 0)

DietStreak(es, t) ==
    DietLoop(es,
             IF es[1].date = t THEN 2 ELSE 1,
             IF es[1].date = t /\ es[1].is_diet_completed THEN 1 ELSE 0)

\* ------------------------------------------------------------------ persistence

\* faulty variants of the comparison: 'and' for 'or', and an unconditional write
NeedsWriteBoth(row, w, d) == w # row.workout_streak /\ d # row.diet_streak
NeedsWriteAlways(row, w, d) == TRUE

NeedsWrite(row, w, d) == w # row.workout_streak \/ d # row.diet_streak

\* faulty variant: the diet assignment is lost
PersistedWorkoutOnly(row, w, d) == [row EXCEPT !.workout_streak = w]

Persisted(row, w, d) == [workout_streak |-> w, diet_streak |-> d]

\* the scan and the write, given the plan the entries are read from.
\* user is a User row or "absent"; the result is what is returned, the row
\* after the call and whether db.session.commit() ran.
Outcome(ret, row, commit) == [ret |-> ret, row |-> row, commit |-> commit]

ScanAndPersist(row, es, t) ==
    LET w == WorkoutStreak(es, t)
        d == DietStreak(es, t)
    IN  IF NeedsWrite(row, w, d)
        THEN Outcome([workout |-> w, diet |-> d], Persisted(row, w, d), TRUE)
        ELSE Outcome([workout |-> w, diet |-> d], row, FALSE)

CalculateOnPlan(row, pid, es, t) ==
    IF pid = NoPlan THEN Outcome(Zero, row, FALSE)
    ELSE LET seen == FetchEntries(pid, es, t)
         IN  IF seen = <<>> THEN Outcome(Zero, row, FALSE)
             ELSE ScanAndPersist(row, seen, t)

CalculateStreaks(uid, us, ps, es, t) ==
    IF uid \notin DOMAIN us THEN Outcome(Zero, "absent", FALSE)
    ELSE CalculateOnPlan(us[uid], LatestPlan(uid, ps), es, t)

\* faulty variant: plan_id is honoured when it names a plan
ComputeStreaksHonoursPlan(uid, pid, us, ps, es, t) ==
    IF uid \notin DOMAIN us THEN Outcome(Zero, "absent", FALSE)
    ELSE CalculateOnPlan(us[uid],
                         IF pid \in DOMAIN ps THEN pid ELSE LatestPlan(uid, ps),
                         es, t)

ComputeStreaks(uid, pid, us, ps, es, t) == CalculateStreaks(uid, us, ps, es, t)

\* ------------------------------------------------------------------ binary64
\* Python floats are IEEE-754 binary64.  A positive float is [m, e] with
\* value m * 2^e and 2^52 <= m < 2^53; m is held as <<hi, lo>> = hi * 2^28 + lo
\* so that no intermediate leaves 32 bits.  Zero has m = <<0, 0>>.

Limb == 2^28
TopBit == 2^24              \* hi of 2^52

Big(n) == <<0, n>>
Hi(x) == x[1]
Lo(x) == x[2]
Geq(x, y) == Hi(x) > Hi(y) \/ (Hi(x) = Hi(y) /\ Lo(x) >= Lo(y))
Sub(x, y) ==
    IF Lo(x) >= Lo(y) THEN <<Hi(x) - Hi(y), Lo(x) - Lo(y)>>
    ELSE <<Hi(x) - Hi(y) - 1, Lo(x) + Limb - Lo(y)>>
Dbl(x) == <<2 * Hi(x) + (2 * Lo(x)) \div Limb, (2 * Lo(x)) % Limb>>
Halve(x) == <<Hi(x) \div 2, (Lo(x) + (Hi(x) % 2) * Limb) \div 2>>
Inc(x) == IF Lo(x) + 1 = Limb THEN <<Hi(x) + 1, 0>> ELSE <<Hi(x), Lo(x) + 1>>
Times(x, k) == <<k * Hi(x) + (k * Lo(x)) \div Limb, (k * Lo(x)) % Limb>>
Odd(x) == Lo(x) % 2 = 1
IsZero(x) == x = <<0, 0>>

RECURSIVE Shr(_, _)
Shr(x, n) == IF IsZero(x) \/ n <= 0 THEN x ELSE Shr(Halve(x), n - 1)

FZero == [m |-> <<0, 0>>, e |-> 0]

\* scale m up to 53 bits: exact
RECURSIVE Normalise(_, _)
Normalise(m, e) ==
    IF IsZero(m) THEN FZero
    ELSE IF Hi(m) >= TopBit THEN [m |-> m, e |-> e]
    ELSE Normalise(Dbl(m), e - 1)

\* float(n) of an integer 0 <= n < 2^28
FromInt(n) == Normalise(Big(n), 0)

\* round to nearest, ties to even: q is the 53-bit quotient so far, up whether
\* the discarded part is above half, or is half with q odd
Rounded(q, e, up) ==
    IF ~up THEN [m |-> q, e |-> e]
    ELSE IF Hi(Inc(q)) >= 2 * TopBit THEN [m |-> Halve(Inc(q)), e |-> e + 1]
    ELSE [m |-> Inc(q), e |-> e]

\* one quotient bit of r / d, r < 2 * d: the state is <<r, q, bits left>>
DivStep(st, d) ==
    IF Geq(st[1], d) THEN <<Dbl(Sub(st[1], d)), Inc(Dbl(st[2])), st[3] - 1>>
    ELSE <<Dbl(st[1]), Dbl(st[2]), st[3] - 1>>

RECURSIVE LongDiv(_, _)
LongDiv(st, d) == IF st[3] = 0 THEN st ELSE LongDiv(DivStep(st, d), d)

\* a / b, correctly rounded (a, b > 0)
FDiv(a, b) ==
    LET low == ~Geq(a.m, b.m)
        r0 == IF low THEN Dbl(a.m) ELSE a.m
        e0 == IF low THEN a.e - 1 ELSE a.e
        st == LongDiv(<<r0, <<0, 0>>, 54>>, b.m)  \* 53 bits and a guard bit
        q == Halve(st[2])
        guard == Odd(st[2])
        sticky == ~IsZero(st[1])
    IN  Rounded(q, e0 - b.e - 52, guard /\ (sticky \/ Odd(q)))

\* the bits of p above 53, p < 2^56
Excess(p) ==
    IF Hi(p) >= 8 * TopBit THEN 3
    ELSE IF Hi(p) >= 4 * TopBit THEN 2
    ELSE IF Hi(p) >= 2 * TopBit THEN 1 ELSE 0

\* a * k for a small integer k (float * int converts k exactly), correctly rounded
FTimes(a, k) ==
    IF IsZero(a.m) THEN FZero
    ELSE LET p == Times(a.m, k)
             s == Excess(p)
             q == Shr(p, s)
             lost == Lo(p) % (2^s)
             half == IF s = 0 THEN 1 ELSE 2^(s - 1)
         IN  Rounded(q, a.e + s,
                     s > 0 /\ (lost > half \/ (lost = half /\ Odd(q))))

\* a < b for a, b >= 0
FLess(a, b) ==
    IF IsZero(b.m) THEN FALSE
    ELSE IF IsZero(a.m) THEN TRUE
    ELSE a.e < b.e \/ (a.e = b.e /\ ~Geq(a.m, b.m))

\* int(x): truncation, x >= 0 below 2^28
Trunc(a) ==
    IF IsZero(a.m) THEN 0
    ELSE IF a.e >= 0 THEN Lo(a.m) * 2^(a.e)
    ELSE IF -a.e > 53 THEN 0
    ELSE Lo(Shr(a.m, -a.e))

\* a decimal literal n/d reads as the float nearest to it
Literal(n, d) == FDiv(FromInt(n), FromInt(d))

\* ------------------------------------------------------------------ estimator

\* weights are None (<<>>) or <<n>>, n sixteenths of a kilogram: such floats
\* and their differences are exact
Sixteenths(n) == IF n = 0 THEN FZero
                 ELSE LET f == FromInt(n) IN [m |-> f.m, e |-> f.e - 4]
Abs(n) == IF n < 0 THEN -n ELSE n
Max(a, b) == IF a >= b THEN a ELSE b

None == "<None>"
Goals == {None, "", "fat_loss", "lose", "weight_loss", "muscle_gain", "gain",
          "bulk", "recomposition", "recomp", "maintain", "Fat_Loss", "BULK",
          "Recomp"}

\* (goal or "").lower() on Goals
GoalLower(goal) ==
    CASE goal = None -> ""
      [] goal = "Fat_Loss" -> "fat_loss"
      [] goal = "BULK" -> "bulk"
      [] goal = "Recomp" -> "recomp"
      [] OTHER -> goal

RateFatLoss == Literal(55, 100)
RateMuscleGain == Literal(3, 10)
RateRecomposition == Literal(2, 10)
RateDefault == Literal(4, 10)
AtGoal == Literal(1, 10)

RatePerWeek(goal_lower) ==
    IF goal_lower \in {"fat_loss", "lose", "weight_loss"} THEN RateFatLoss
    ELSE IF goal_lower \in {"muscle_gain", "gain", "bulk"} THEN RateMuscleGain
    ELSE IF goal_lower \in {"recomposition", "recomp"} THEN RateRecomposition
    ELSE RateDefault

EstimateTransformationDays(weight, target, goal) ==
    IF weight = <<>> \/ target = <<>> THEN 0
    ELSE LET kg_to_change == Sixteenths(Abs(target[1] - weight[1]))
         IN  IF FLess(kg_to_change, AtGoal) THEN 0
             ELSE LET weeks_needed ==
                          FDiv(kg_to_change, RatePerWeek(GoalLower(goal)))
                  IN  Max(7, Trunc(FTimes(weeks_needed, 7)))

\* ------------------------------------------------------------------ the store

Procs == {"a", "b"}
IdleLoc == [user |-> ZeroRow, workout |-> 0, diet |-> 0]

StoreInit ==
    /\ users = [u \in UserIds |-> ZeroRow]
    /\ call = NoCall
    /\ pc = [p \in Procs |-> "idle"]
    /\ loc = [p \in Procs |-> IdleLoc]
    /\ written = [by |-> "none", workout |-> 0, diet |-> 0]
    /\ est = [weight |-> <<>>, target |-> <<>>, goal |-> None, days |-> <<>>]

Init ==
    /\ StoreInit
    /\ plans = <<>>
    /\ entries = {}
    /\ today = 1

CreatePlan(u) ==
    /\ Len(plans) < MaxPlans
    /\ plans' = Append(plans, u)
    /\ call' = NoCall
    /\ UNCHANGED <<users, entries, today, raceVars>>

AddEntry(p, d, f) ==
    /\ p \in DOMAIN plans
    /\ Cardinality(entries) < MaxEntries
    /\ \A e \in entries : ~(e.plan = p /\ e.date = d)
    /\ entries' = entries \cup {Entry(p, d, f)}
    /\ call' = NoCall
    /\ UNCHANGED <<users, plans, today, raceVars>>

SetFlags(e, f) ==
    /\ e \in entries
    /\ Entry(e.plan, e.date, f) # e
    /\ entries' = (entries \ {e}) \cup {Entry(e.plan, e.date, f)}
    /\ call' = NoCall
    /\ UNCHANGED <<users, plans, today, raceVars>>

AdvanceDay ==
    /\ today < MaxDay
    /\ today' = today + 1
    /\ call' = NoCall
    /\ UNCHANGED <<users, plans, entries, raceVars>>

RowOf(ret) == [workout_streak |-> ret.workout, diet_streak |-> ret.diet]

\* the User rows after a call, and what its caller saw
UsersAfter(uid, out) ==
    IF uid \in DOMAIN users THEN [users EXCEPT ![uid] = out.row] ELSE users

Observed(op, uid, pid, out) ==
    [op |-> op, uid |-> uid, pid |-> pid, ret |-> out.ret, wrote |-> out.commit,
     differs |-> uid \in DOMAIN users /\ RowOf(out.ret) # users[uid],
     kept |-> UsersAfter(uid, out) = users]

\* calculate_streaks(user), run to completion
CallCalculate(uid) ==
    LET out == CalculateStreaks(uid, users, plans, entries, today)
    IN  /\ users' = UsersAfter(uid, out)
        /\ call' = Observed("calculate", uid, NoPlan, out)
        /\ UNCHANGED <<plans, entries, today, raceVars>>

\* compute_streaks(user_id, plan_id), run to completion
CallCompute(uid, pid) ==
    LET out == ComputeStreaks(uid, pid, users, plans, entries, today)
    IN  /\ users' = UsersAfter(uid, out)
        /\ call' = Observed("compute", uid, pid, out)
        /\ UNCHANGED <<plans, entries, today, raceVars>>

Next ==
    \/ \E u \in Owners : CreatePlan(u)
    \/ \E p \in 1..MaxPlans, d \in Days, f \in Flags : AddEntry(p, d, f)
    \/ \E e \in entries, f \in Flags : SetFlags(e, f)
    \/ AdvanceDay
    \/ \E u \in UserIds \cup {UnknownUser} : CallCalculate(u)
    \/ \E u \in UserIds \cup {UnknownUser}, p \in PlanArgs : CallCompute(u, p)

Spec == Init /\ [][Next]_vars

\* ------------------------------------------------------------------ SpecScan
\* calculate_streaks on every entry list of one plan: the dates are any
\* subset of Days, the flags any, today any day.

PlanEntries(p, D, f) == {Entry(p, d, f[d]) : d \in D}

InitScan ==
    /\ StoreInit
    /\ plans = <<1>>
    /\ \E D \in SUBSET Days : \E f \in [D -> Flags] : entries = PlanEntries(1, D, f)
    /\ today \in Days

NextScan == \E u \in UserIds : CallCalculate(u)

SpecScan == InitScan /\ [][NextScan]_vars

\* ------------------------------------------------------------------ SpecRace
\* Concurrent invocations for user 1, each in a request of its own: the user
\* object is loaded, the plan and its entries are queried and scanned, the
\* counts are compared with the loaded object and both fields are written in
\* one commit.  Check-ins by other requests insert and change today's entry
\* in between; yesterday's entry, if any, is as it was left.

RaceUser == CHOOSE u \in UserIds : TRUE

InitRace ==
    /\ StoreInit
    /\ plans = <<RaceUser>>
    /\ today = MaxDay
    /\ \E D \in SUBSET {today - 1} : \E f \in [D -> Flags] :
          entries = PlanEntries(1, D, f)

\* User.query.get(user_id): the object this invocation works on
RaceLoad(p) ==
    /\ pc[p] = "idle"
    /\ pc' = [pc EXCEPT ![p] = "loaded"]
    /\ loc' = [loc EXCEPT ![p] = [IdleLoc EXCEPT !.user = users[RaceUser]]]
    /\ UNCHANGED <<users, plans, entries, today, call, written, est>>

\* the two queries and the scans; without a plan or entries the call returns
RaceRead(p) ==
    /\ pc[p] = "loaded"
    /\ LET pid == LatestPlan(RaceUser, plans)
           seen == IF pid = NoPlan THEN <<>> ELSE FetchEntries(pid, entries, today)
       IN  IF seen = <<>>
           THEN /\ pc' = [pc EXCEPT ![p] = "idle"]
                /\ loc' = [loc EXCEPT ![p] = IdleLoc]
           ELSE /\ pc' = [pc EXCEPT ![p] = "scanned"]
                /\ loc' = [loc EXCEPT ![p].workout = WorkoutStreak(seen, today),
                                      ![p].diet = DietStreak(seen, today)]
    /\ UNCHANGED <<users, plans, entries, today, call, written, est>>

\* the comparison with the loaded object, the two assignments and the commit
RacePersist(p) ==
    /\ pc[p] = "scanned"
    /\ IF NeedsWrite(loc[p].user, loc[p].workout, loc[p].diet)
       THEN /\ users' = [users EXCEPT ![RaceUser] =
                            Persisted(loc[p].user, loc[p].workout, loc[p].diet)]
            /\ written' = [by |-> p, workout |-> loc[p].workout,
                            diet |-> loc[p].diet]
       ELSE UNCHANGED <<users, written>>
    /\ pc' = [pc EXCEPT ![p] = "idle"]
    /\ loc' = [loc EXCEPT ![p] = IdleLoc]
    /\ UNCHANGED <<plans, entries, today, call, est>>

NextRace ==
    \/ \E p \in Procs : RaceLoad(p)
    \/ \E p \in Procs : RaceRead(p)
    \/ \E p \in Procs : RacePersist(p)
    \/ \E f \in Flags : AddEntry(1, today, f)
    \/ \E e \in {x \in entries : x.date = today}, f \in Flags : SetFlags(e, f)

SpecRace == InitRace /\ [][NextRace]_vars

\* ------------------------------------------------------------------ SpecEst
\* estimate_transformation_days from 80 kg (or no weight) to every target
\* within reach, in sixteenths of a kilogram, for every goal of Goals.

EstWeights == {<<>>, <<80 * 16>>}
EstTargets == {<<>>} \cup {<<n>> : n \in (70 * 16 - 5)..(80 * 16 + 5)}

InitEst ==
    /\ users = [u \in UserIds |-> ZeroRow]
    /\ call = NoCall
    /\ pc = [p \in Procs |-> "idle"]
    /\ loc = [p \in Procs |-> IdleLoc]
    /\ written = [by |-> "none", workout |-> 0, diet |-> 0]
    /\ plans = <<>>
    /\ entries = {}
    /\ today = 1
    /\ \E w \in EstWeights, t \in EstTargets, g \in Goals :
          est = [weight |-> w, target |-> t, goal |-> g, days |-> <<>>]

EstimateCall ==
    /\ est.days = <<>>
    /\ est' = [est EXCEPT !.days =
                  <<EstimateTransformationDays(est.weight, est.target, est.goal)>>]
    /\ UNCHANGED storeVars

NextEst == EstimateCall

SpecEst == InitEst /\ [][NextEst]_vars

\* ------------------------------------------------------------------ claims on the scan

\* what the last call read: the rows of user 1's newest plan dated <= today
NewestPlanOf(uid) ==
    {i \in DOMAIN plans : plans[i] = uid /\ \A j \in DOMAIN plans : plans[j] = uid => j <= i}
Visible(uid) == {e \in entries : e.plan \in NewestPlanOf(uid) /\ e.date <= today}
Older(uid) == {e \in Visible(uid) : e.date < today}
Succ(e) == ~e.is_exercise_day \/ e.is_exercise_completed
Bit(b) == IF b THEN 1 ELSE 0

\* the entries of S with no entry of S outside Good as new or newer
Run(S, Good) == {e \in S : \A x \in S : x.date >= e.date => x \in Good}

Scanned == call.op # "none" /\ call.uid \in UserIds /\ Visible(call.uid) # {}

\* C1: the workout streak is T + P: T = 1 iff the newest entry is today's
\* and successful, P = the successful entries older than today that no
\* unsuccessful entry older than today is as new as.
C1_WorkoutStreak ==
    Scanned =>
        call.ret.workout =
            Bit(\E e \in Visible(call.uid) : e.date = today /\ Succ(e))
            + Cardinality(Run(Older(call.uid), {e \in entries : Succ(e)}))

\* the spec's example: today an open exercise day, yesterday a rest day, the
\* day before a completed exercise day: 2
C1_Witness ==
    /\ Scanned
    /\ today = 3
    /\ call.ret.workout = 2
    /\ \E e \in Visible(1) : e.date = 3 /\ e.is_exercise_day /\ ~e.is_exercise_completed
    /\ \E e \in Visible(1) : e.date = 2 /\ ~e.is_exercise_day
    /\ \E e \in Visible(1) : e.date = 1 /\ e.is_exercise_day /\ e.is_exercise_completed

\* C2: the diet streak is T + P: T = 1 iff the newest entry is today's with
\* its diet completed, P = the run of diet-completed entries older than today;
\* the workout flags play no part.
C2_DietStreak ==
    Scanned =>
        call.ret.diet =
            Bit(\E e \in Visible(call.uid) : e.date = today /\ e.is_diet_completed)
            + Cardinality(Run(Older(call.uid), {e \in entries : e.is_diet_completed}))

\* the spec's example: today open, yesterday completed, the day before open: 1
C2_Witness ==
    /\ Scanned
    /\ today = 3
    /\ call.ret.diet = 1
    /\ \E e \in Visible(1) : e.date = 3 /\ ~e.is_diet_completed
    /\ \E e \in Visible(1) : e.date = 2 /\ e.is_diet_completed
    /\ \E e \in Visible(1) : e.date = 1 /\ ~e.is_diet_completed

\* the list the last call read, and the same flags under other dates
Seen == FetchEntries(LatestPlan(call.uid, plans), entries, today)
Redated(es, ds) == [i \in 1..Len(es) |-> [es[i] EXCEPT !.date = ds[i]]]
DescDates(n, t) ==
    {ds \in [1..n -> 1..t] : \A i \in 1..n : \A j \in 1..n : i < j => ds[i] > ds[j]}

Called == call.op # "none"
Present == Called /\ call.uid \in UserIds
HasNoPlan(uid) == \A i \in DOMAIN plans : plans[i] # uid
\* the three short-circuits of the last call
ShortCircuit ==
    Called /\ (call.uid \notin UserIds \/ HasNoPlan(call.uid) \/ Visible(call.uid) = {})

\* C3: at the persistence step, counts that differ from the stored pair
\* overwrite both fields in one commit; equal counts write nothing.
C3_PersistIffChanged ==
    Scanned =>
        /\ call.differs => call.wrote /\ users[call.uid] = RowOf(call.ret)
        /\ ~call.differs => ~call.wrote /\ call.kept

\* a commit that replaced a differing stored pair by (0, 1)
C3_Witness ==
    /\ Scanned /\ call.differs /\ call.wrote /\ ~call.kept
    /\ call.ret = [workout |-> 0, diet |-> 1]

\* the outcome of the same call made again on the state the last one left
Again ==
    IF call.op = "compute"
    THEN ComputeStreaks(call.uid, call.pid, users, plans, entries, today)
    ELSE CalculateStreaks(call.uid, users, plans, entries, today)

\* C4: a second call on unchanged plans, entries and date returns the same
\* pair and writes nothing.
C4_Idempotent ==
    Called =>
        /\ Again.ret = call.ret
        /\ ~Again.commit
        /\ call.uid \in UserIds => Again.row = users[call.uid]

\* the first call committed a non-zero pair
C4_Witness ==
    /\ Present /\ call.op = "calculate" /\ call.wrote
    /\ call.ret.workout > 0 /\ call.ret.diet > 0

\* C5, as claimed: after any completed call for a present user the stored
\* pair equals the returned pair.
C5_StoredEqualsReturned ==
    Present /\ call.op = "calculate" => users[call.uid] = RowOf(call.ret)

\* C6: absent user, no plan, or newest plan without entries dated <= today:
\* {0, 0} is returned, nothing is written, the stored pair is unchanged.
C6_ShortCircuit ==
    ShortCircuit => call.ret = Zero /\ ~call.wrote /\ call.kept

\* the newest plan of user 1 has no entry dated <= today while an older plan
\* of user 1 has one
C6_Witness ==
    /\ Present /\ ShortCircuit /\ ~HasNoPlan(call.uid)
    /\ \E e \in entries :
          /\ e.date <= today /\ plans[e.plan] = call.uid
          /\ e.plan \notin NewestPlanOf(call.uid)
          /\ IsSuccessW(e) /\ e.is_diet_completed
    /\ call.ret = Zero

\* C7: whatever plan_id is passed, compute_streaks returns and writes what
\* calculate_streaks does on the user's newest plan; an unknown user_id gives
\* {0, 0} and no write.
C7_PlanIdIgnored ==
    /\ \A u \in UserIds \cup {UnknownUser} : \A p \in PlanArgs :
          ComputeStreaks(u, p, users, plans, entries, today)
              = CalculateStreaks(u, users, plans, entries, today)
    /\ call.op = "compute" =>
          /\ call.uid \notin UserIds => call.ret = Zero /\ ~call.wrote /\ call.kept
          /\ Scanned =>
                /\ call.ret.workout = WorkoutStreak(Seen, today)
                /\ call.ret.diet = DietStreak(Seen, today)
                /\ users[call.uid] = RowOf(call.ret)

\* compute_streaks was passed an older plan of the user whose entries give
\* another count than the newest plan's
C7_Witness ==
    /\ call.op = "compute" /\ Scanned
    /\ call.pid \in DOMAIN plans /\ plans[call.pid] = call.uid
    /\ call.pid \notin NewestPlanOf(call.uid)
    /\ call.ret.workout = 1
    /\ FetchEntries(call.pid, entries, today) # <<>>
    /\ WorkoutStreak(FetchEntries(call.pid, entries, today), today) = 0

\* ------------------------------------------------------------------ claims on the race

ClaimedRate(goal) ==
    LET g == GoalLower(goal)
    IN  IF g \in {"fat_loss", "lose", "weight_loss"} THEN 55
        ELSE IF g \in {"muscle_gain", "gain", "bulk"} THEN 30
        ELSE IF g \in {"recomposition", "recomp"} THEN 20
        ELSE 40

\* max(7, floor(7 * |target - weight| / rate)) in exact arithmetic on
\* sixteenths: 7 * (n / 16) / (r / 100) = 700 n / (16 r)
ClaimedDays(weight, target, goal) ==
    IF weight = <<>> \/ target = <<>> THEN 0
    ELSE LET n == Abs(target[1] - weight[1])
         IN  IF 10 * n < 16 THEN 0
             ELSE Max(7, (700 * n) \div (16 * ClaimedRate(goal)))

Estimated == est.days # <<>>

\* C8, as claimed: 0 without a weight or within 0.1 kg of the target, else
\* max(7, floor(7 * |target - weight| / rate)) with the goal's rate.
C8_ClaimedFormula ==
    Estimated => est.days[1] = ClaimedDays(est.weight, est.target, est.goal)

====
